---- MODULE Spec2Model ----
(***************************************************************************)
(* Model of the image extraction pipeline of the medical image classifier *)
(* (src/utils/extract_images.py): extract_images_from_pdf,                 *)
(* extract_images_from_url and download_and_convert.                       *)
(*                                                                         *)
(* Text (URLs, src attributes) is a sequence of atoms: an atom is a piece  *)
(* of text that no pattern of the code straddles ("/", " ", a scheme, a    *)
(* host, a word, an extension, a query string).  The string operations of  *)
(* the code (strip, lower, endswith, in, startswith, split, join, +) are   *)
(* computed on these sequences as Python computes them on characters.      *)
(***************************************************************************)
EXTENDS Naturals, Sequences, FiniteSets, TLC

(* ------------------------------ bounds -------------------------------- *)
MaxPages == 2
MaxPerPage == 2
MaxImgs == 2
MaxMainImgs == 2

(* requests.get(..., timeout=10) *)
TimeoutSecs == 10

(* ------------------------------ text ---------------------------------- *)
RECURSIVE LStrip(_)
LStrip(s) == IF s # <<>> /\ Head(s) = " " THEN LStrip(Tail(s)) ELSE s

RECURSIVE RStrip(_)
RStrip(s) ==
    IF s # <<>> /\ s[Len(s)] = " " THEN RStrip(SubSeq(s, 1, Len(s) - 1)) ELSE s

Strip(s) == RStrip(LStrip(s))

LowerAtom(a) ==
    CASE a = ".JPG" -> ".jpg"
      [] a = ".PNG" -> ".png"
      [] OTHER -> a

Lower(s) == [i \in 1..Len(s) |-> LowerAtom(s[i])]

EndsWith(s, suf) ==
    /\ Len(s) >= Len(suf)
    /\ SubSeq(s, Len(s) - Len(suf) + 1, Len(s)) = suf

StartsWith(s, pre) ==
    /\ Len(s) >= Len(pre)
    /\ SubSeq(s, 1, Len(pre)) = pre

Contains(s, pat) ==
    \E i \in 1..(Len(s) + 1) :
        /\ i + Len(pat) - 1 <= Len(s)
        /\ SubSeq(s, i, i + Len(pat) - 1) = pat

(* s.split("/"): the pieces between the separators, empty pieces kept *)
RECURSIVE SplitSlash(_)
SplitSlash(s) ==
    IF s = <<>> THEN << <<>> >>
    ELSE LET rest == SplitSlash(Tail(s))
         IN  IF Head(s) = "/"
             THEN << <<>> >> \o rest
             ELSE << <<Head(s)>> \o Head(rest) >> \o Tail(rest)

(* "/".join(parts) *)
RECURSIVE JoinSlash(_)
JoinSlash(parts) ==
    IF parts = <<>> THEN <<>>
    ELSE IF Len(parts) = 1 THEN Head(parts)
    ELSE Head(parts) \o <<"/">> \o JoinSlash(Tail(parts))

(* parts[:n] *)
Take(parts, n) == SubSeq(parts, 1, IF Len(parts) < n THEN Len(parts) ELSE n)

(* ------------------------- image byte buffers ------------------------- *)
None == [type |-> "none"]
Garbage == [type |-> "garbage"]

(* raw encoded images as a source serves them: px stands for the pixels *)
PngRgba == [type |-> "img", fmt |-> "PNG", mode |-> "RGBA", px |-> 1, truncated |-> FALSE]
JpegGray == [type |-> "img", fmt |-> "JPEG", mode |-> "L", px |-> 2, truncated |-> FALSE]
PngCut == [type |-> "img", fmt |-> "PNG", mode |-> "RGB", px |-> 3, truncated |-> TRUE]

ImageBuffers == {PngRgba, JpegGray, PngCut}

(* Image.open(...) followed by img.convert("RGB") succeeds *)
Decodable(c) == c.type = "img" /\ ~c.truncated

(* img.convert("RGB"); img.save(buf, format="JPEG"); buf.getvalue() *)
EncodeJpegRgb(c) ==
    [type |-> "img", fmt |-> "JPEG", mode |-> "RGB", px |-> c.px, truncated |-> FALSE]


(* ------------------------------ inputs -------------------------------- *)
SeqsUpTo(S, n) == UNION {[1..k -> S] : k \in 0..n}

(* xref numbers of the embedded images a document can list, with the raw *)
(* bytes stored under each                                                *)
Xrefs == {5, 7}
XrefImage == (5 :> PngRgba) @@ (7 :> PngCut)

NoDoc == [status |-> "none", pages |-> <<>>, broken |-> {}]

(* a PDF path: what fitz.open does with it, what each page lists, and the *)
(* xrefs whose stream doc.extract_image cannot read                       *)
Docs ==
    {[status |-> "missing", pages |-> <<>>, broken |-> {}],
     [status |-> "malformed", pages |-> <<>>, broken |-> {}]}
    \cup
    {[status |-> "ok", pages |-> p, broken |-> b] :
        p \in SeqsUpTo(SeqsUpTo(Xrefs, MaxPerPage), MaxPages), b \in SUBSET Xrefs}

RECURSIVE Flatten(_)
Flatten(pages) == IF pages = <<>> THEN <<>> ELSE Head(pages) \o Flatten(Tail(pages))

(* the xrefs a document lists, page by page *)
Listed(d) == Flatten(d.pages)

Urls ==
    { <<"https:", "/", "/", "example.com", "/", "page", ".html">>,
      <<"http:", "/", "/", "example.com", "/", "page", ".html">>,
      <<"https:", "/", "/", "example.com", "/", "photo", ".jpg">>,
      <<" ", "https:", "/", "/", "example.com", "/", "photo", ".JPG", " ">>,
      <<"https:", "/", "/", "example.com", "/", "photo", ".jpg", "?v=1">>,
      <<"https:", "/", "/", "example.com", "/", "scan", ".gif", "?v=1">>,
      <<"http:", "/", "/", "example.com", "/", "scan", ".gif">>,
      <<"https:", "/", "/", "example.com", "/", "image", "/", "view">> }

(* the src attribute of an img element; the empty text is a missing src *)
NoSrc == <<>>
Srcs ==
    { NoSrc,
      <<"/", "a", ".png">>,
      <<"/", "/", "cdn.example.com", "/", "b", ".png">>,
      <<"https:", "/", "/", "example.com", "/", "c", ".png">> }

Pages == {[type |-> "html", tags |-> t] : t \in SeqsUpTo(Srcs, MaxImgs)}

FailStatuses == {"connection_error", "timeout", "http_error"}

Failures == {[status |-> st, content |-> None] : st \in FailStatuses}

(* what a server can answer to an image request / to the page request *)
DcResponses ==
    Failures \cup {[status |-> "ok", content |-> c] : c \in ImageBuffers \cup {Garbage}}
HtmlResponses ==
    Failures \cup {[status |-> "ok", content |-> c] : c \in Pages \cup {PngRgba}}

(* ------------------------------ state --------------------------------- *)
VARIABLES
    pc,       \* position of the running call
    op,       \* the function called: "pdf", "url", "dc"
    doc,      \* pdf_path argument (the document behind it)
    rawUrl,   \* url argument as passed
    url,      \* url after url.strip()
    pg, ix,   \* position of the two for loops of extract_images_from_pdf
    tags,     \* img_tags
    idx,      \* position of the for loop over img_tags
    images,   \* the local list images
    log,      \* requests issued by the call, in order
    outcome,  \* "none", "returned", "raised"
    ret,      \* <<v>> when v was returned, <<>> otherwise
    handles,  \* the handles the running call opened and has not released
    memo,     \* history: one normalization of an earlier call, if any
    prog,     \* the program running: "none", "main", "eval"
    mpc,      \* position of the program
    args,     \* main: the parsed command line
    extracted, \* main: how the extraction call ended
    mimages,  \* main: images
    mi,       \* main: the loop variable i
    lines,    \* main: the result lines printed, in order
    calls,    \* the calls of classify_images_clip made, in order
    mout,     \* how the program ended: "none", "returned", "raised"
    ecorrect, etotal, etimes, \* evaluate_single_image_classification locals
    eout      \* how evaluate_single_image_classification ended

appVars == <<prog, mpc, args, extracted, mimages, mi, lines, calls, mout,
             ecorrect, etotal, etimes, eout>>

exVars == <<pc, op, doc, rawUrl, url, pg, ix, tags, idx, images, log, outcome, ret,
            handles, memo>>

vars == <<exVars, appVars>>

NoArgs == [pdf |-> NoDoc, url |-> <<>>]
NotCalled == [outcome |-> "none", ret |-> <<>>]

Returned(v) == [outcome |-> "returned", ret |-> <<v>>]
Raised == [outcome |-> "raised", ret |-> <<>>]

Finish(o) ==
    /\ pc' = "done"
    /\ outcome' = o.outcome
    /\ ret' = o.ret

Init ==
    /\ pc = "idle"
    /\ op = "none"
    /\ doc = NoDoc
    /\ rawUrl = <<>>
    /\ url = <<>>
    /\ pg = 1
    /\ ix = 1
    /\ tags = <<>>
    /\ idx = 1
    /\ images = <<>>
    /\ log = <<>>
    /\ outcome = "none"
    /\ ret = <<>>
    /\ handles = {}
    /\ memo = <<>>
    /\ prog = "none"
    /\ mpc = "off"
    /\ args = NoArgs
    /\ extracted = NotCalled
    /\ mimages = <<>>
    /\ mi = 0
    /\ lines = <<>>
    /\ calls = <<>>
    /\ mout = "none"
    /\ ecorrect = 0
    /\ etotal = 0
    /\ etimes = <<>>
    /\ eout = NotCalled

CanCall == pc = "idle"

(* ---------------------- extract_images_from_pdf ----------------------- *)
(* fitz.open(pdf_path) raises on a missing or unparsable file *)
OpenRaises(d) == d.status # "ok"

(* doc.extract_image(xref)["image"] raises for an unreadable stream *)
ExtractRaises(d, xref) == xref \in d.broken

(* an exception inside the loops has no handler: it leaves the function *)
PdfExtractFailure_Partial(imgs) == Returned(imgs)
PdfExtractFailure(imgs) == Raised

PdfAppend_Prepend(imgs, xref) == <<XrefImage[xref]>> \o imgs
PdfAppend(imgs, xref) == Append(imgs, XrefImage[xref])

CallPdf(d) ==
    /\ CanCall
    /\ op' = "pdf"
    /\ doc' = d
    /\ rawUrl' = <<>>
    /\ url' = <<>>
    /\ pg' = 1
    /\ ix' = 1
    /\ tags' = <<>>
    /\ idx' = 1
    /\ images' = <<>>
    /\ log' = <<>>
    /\ IF OpenRaises(d)
       THEN Finish(Raised) /\ handles' = {}
       ELSE /\ pc' = "pdf_loop" /\ outcome' = "none" /\ ret' = <<>>
            /\ handles' = {"doc"}
    /\ UNCHANGED memo

PdfNextPage ==
    /\ pc = "pdf_loop"
    /\ pg <= Len(doc.pages)
    /\ ix > Len(doc.pages[pg])
    /\ pg' = pg + 1
    /\ ix' = 1
    /\ UNCHANGED <<pc, op, doc, rawUrl, url, tags, idx, images, log, outcome,
                   ret, handles, memo>>
    /\ UNCHANGED appVars

PdfExtract ==
    /\ pc = "pdf_loop"
    /\ pg <= Len(doc.pages)
    /\ ix <= Len(doc.pages[pg])
    /\ LET xref == doc.pages[pg][ix]
       IN  IF ExtractRaises(doc, xref)
           THEN /\ Finish(PdfExtractFailure(images))
                /\ UNCHANGED <<ix, images>>
           ELSE /\ images' = PdfAppend(images, xref)
                /\ ix' = ix + 1
                /\ UNCHANGED <<pc, outcome, ret>>
    /\ UNCHANGED <<op, doc, rawUrl, url, pg, tags, idx, log, handles, memo>>
    /\ UNCHANGED appVars

(* doc is never closed: no doc.close(), no with block.  When the function  *)
(* returns, the Document is closed only if the interpreter finalizes the   *)
(* dropped local at once (reference counting); otherwise it stays open.    *)
(* When it raises, the traceback keeps the frame and the Document alive.   *)
DocAfterReturn(h) == {h, h \ {"doc"}}

PdfReturn ==
    /\ pc = "pdf_loop"
    /\ pg > Len(doc.pages)
    /\ Finish(Returned(images))
    /\ handles' \in DocAfterReturn(handles)
    /\ UNCHANGED <<op, doc, rawUrl, url, pg, ix, tags, idx, images, log, memo>>
    /\ UNCHANGED appVars

(* ------------------------ download_and_convert ------------------------ *)
(* requests.get raises on a connection error or a timeout *)
GetRaises(resp) == resp.status \in {"connection_error", "timeout"}

(* resp.raise_for_status() raises on a non-success status *)
StatusRaises(resp) == resp.status = "http_error"

ConvertStep_SharedBuffer(content) ==
    IF Decodable(content)
    THEN [raised |-> FALSE,
          value |-> [EncodeJpegRgb(content) EXCEPT !.px = @ + Len(log)]]
    ELSE [raised |-> FALSE, value |-> None]

ConvertStep_NoCatch(content) ==
    IF Decodable(content)
    THEN [raised |-> FALSE, value |-> EncodeJpegRgb(content)]
    ELSE [raised |-> TRUE, value |-> None]

(* the try block around Image.open / convert / save *)
ConvertStep(content) ==
    IF Decodable(content)
    THEN [raised |-> FALSE, value |-> EncodeJpegRgb(content)]
    ELSE [raised |-> FALSE, value |-> None]

DownloadAndConvert(resp) ==
    IF GetRaises(resp) \/ StatusRaises(resp)
    THEN [raised |-> TRUE, value |-> None]
    ELSE ConvertStep(resp.content)

(* the request download_and_convert issues, with what became of it *)
DcRequest(target, resp, elem) ==
    [url |-> target, via |-> "dc", method |-> "GET", ua |-> TRUE,
     timeout |-> TimeoutSecs, resp |-> resp, elem |-> elem,
     raised |-> DownloadAndConvert(resp).raised,
     value |-> DownloadAndConvert(resp).value]

(* if img_bytes: *)
Truthy(v) == v # None

CallDownload(u) ==
    /\ CanCall
    /\ op' = "dc"
    /\ pc' = "dc"
    /\ doc' = NoDoc
    /\ rawUrl' = u
    /\ url' = u
    /\ pg' = 1
    /\ ix' = 1
    /\ tags' = <<>>
    /\ idx' = 1
    /\ images' = <<>>
    /\ log' = <<>>
    /\ outcome' = "none"
    /\ ret' = <<>>
    /\ handles' = {}
    /\ UNCHANGED memo

DownloadFetch ==
    /\ pc = "dc"
    /\ \E resp \in DcResponses :
        LET dc == DownloadAndConvert(resp)
        IN  /\ log' = Append(log, DcRequest(url, resp, 0))
            /\ Finish(IF dc.raised THEN Raised ELSE Returned(dc.value))
    /\ UNCHANGED <<op, doc, rawUrl, url, pg, ix, tags, idx, images, handles,
                   memo>>
    /\ UNCHANGED appVars

(* ---------------------- extract_images_from_url ----------------------- *)
ImageExts == {".jpg", ".jpeg", ".png", ".gif", ".bmp", ".tiff", ".webp"}

ImagePatterns ==
    { <<"/", "image", "/">>, <<"/", "photo", "/">>, <<"/", "img", "/">>,
      <<".png">>, <<".jpg">>, <<".jpeg">> }

IsDirect(u) == \E e \in ImageExts : EndsWith(Lower(u), <<e>>)

IsImageLike(u) == \E pat \in ImagePatterns : Contains(Lower(u), pat)

(* the request of the webpage path: no headers are passed *)
HtmlRequest(target, resp) ==
    [url |-> target, via |-> "html", method |-> "GET", ua |-> FALSE,
     timeout |-> TimeoutSecs, resp |-> resp, elem |-> 0,
     raised |-> (GetRaises(resp) \/ StatusRaises(resp)),
     value |-> None]

(* soup.find_all("img"), each element by its src; bytes that are no HTML *)
(* hold no img element                                                    *)
ParseImgTags(content) == IF content.type = "html" THEN content.tags ELSE <<>>

(* the rewriting of a src before it is fetched *)
ResolveSrc(pageUrl, src) ==
    IF StartsWith(src, <<"/", "/">>)
    THEN <<"https:">> \o src
    ELSE IF StartsWith(src, <<"/">>)
    THEN JoinSlash(Take(SplitSlash(pageUrl), 3)) \o src
    ELSE src

HtmlFetchFailure_Raise == Raised

(* except Exception around the page fetch: print and return [] *)
HtmlFetchFailure == Returned(<<>>)

ImgAttempt_NoCheck(imgs, dc) ==
    IF dc.raised THEN imgs ELSE Append(imgs, dc.value)

(* the try block around one image of the page *)
ImgAttempt(imgs, dc) ==
    IF dc.raised THEN imgs
    ELSE IF Truthy(dc.value) THEN Append(imgs, dc.value)
    ELSE imgs

CallUrl(u) ==
    /\ CanCall
    /\ op' = "url"
    /\ doc' = NoDoc
    /\ rawUrl' = u
    /\ url' = Strip(u)
    /\ pg' = 1
    /\ ix' = 1
    /\ tags' = <<>>
    /\ idx' = 1
    /\ images' = <<>>
    /\ log' = <<>>
    /\ outcome' = "none"
    /\ ret' = <<>>
    /\ handles' = {}
    /\ UNCHANGED memo
    /\ pc' = IF IsDirect(Strip(u)) THEN "direct"
             ELSE IF IsImageLike(Strip(u)) THEN "like"
             ELSE "html"

DirectFetch ==
    /\ pc = "direct"
    /\ \E resp \in DcResponses :
        LET dc == DownloadAndConvert(resp)
        IN  /\ log' = Append(log, DcRequest(url, resp, 0))
            /\ Finish(IF dc.raised THEN Raised
                      ELSE IF Truthy(dc.value) THEN Returned(<<dc.value>>)
                      ELSE Returned(<<>>))
    /\ UNCHANGED <<op, doc, rawUrl, url, pg, ix, tags, idx, images, handles,
                   memo>>
    /\ UNCHANGED appVars

LikeFetch ==
    /\ pc = "like"
    /\ \E resp \in DcResponses :
        LET dc == DownloadAndConvert(resp)
        IN  /\ log' = Append(log, DcRequest(url, resp, 0))
            /\ IF dc.raised THEN Finish(Raised)
               ELSE IF Truthy(dc.value) THEN Finish(Returned(<<dc.value>>))
               ELSE pc' = "html" /\ UNCHANGED <<outcome, ret>>
    /\ UNCHANGED <<op, doc, rawUrl, url, pg, ix, tags, idx, images, handles,
                   memo>>
    /\ UNCHANGED appVars

HtmlFetch ==
    /\ pc = "html"
    /\ \E resp \in HtmlResponses :
        /\ log' = Append(log, HtmlRequest(url, resp))
        /\ IF GetRaises(resp) \/ StatusRaises(resp)
           THEN Finish(HtmlFetchFailure) /\ UNCHANGED <<tags, idx>>
           ELSE /\ tags' = ParseImgTags(resp.content)
                /\ idx' = 1
                /\ pc' = "img_loop"
                /\ UNCHANGED <<outcome, ret>>
    /\ UNCHANGED <<op, doc, rawUrl, url, pg, ix, images, handles, memo>>
    /\ UNCHANGED appVars

ImgSkip ==
    /\ pc = "img_loop"
    /\ idx <= Len(tags)
    /\ tags[idx] = NoSrc
    /\ idx' = idx + 1
    /\ UNCHANGED <<pc, op, doc, rawUrl, url, pg, ix, tags, images, log,
                   outcome, ret, handles, memo>>
    /\ UNCHANGED appVars

ImgFetch ==
    /\ pc = "img_loop"
    /\ idx <= Len(tags)
    /\ tags[idx] # NoSrc
    /\ \E resp \in DcResponses :
        /\ log' = Append(log, DcRequest(ResolveSrc(url, tags[idx]), resp, idx))
        /\ images' = ImgAttempt(images, DownloadAndConvert(resp))
    /\ idx' = idx + 1
    /\ UNCHANGED <<pc, op, doc, rawUrl, url, pg, ix, tags, outcome, ret,
                   handles, memo>>
    /\ UNCHANGED appVars

UrlReturn ==
    /\ pc = "img_loop"
    /\ idx > Len(tags)
    /\ Finish(Returned(images))
    /\ UNCHANGED <<op, doc, rawUrl, url, pg, ix, tags, idx, images, log,
                   handles, memo>>
    /\ UNCHANGED appVars

(* what the normalizing step of the finished call turned bytes into *)
Normalizations(l) ==
    { <<[content |-> l[i].resp.content, value |-> l[i].value]>> :
        i \in {k \in 1..Len(l) : l[k].via = "dc" /\ l[k].resp.status = "ok" /\ ~l[k].raised} }

(* the call has returned or raised: its frame and locals are discarded and *)
(* the caller may call again                                               *)
Leave ==
    /\ pc = "done"
    /\ pc' = "idle"
    /\ op' = "none"
    /\ doc' = NoDoc
    /\ rawUrl' = <<>>
    /\ url' = <<>>
    /\ pg' = 1
    /\ ix' = 1
    /\ tags' = <<>>
    /\ idx' = 1
    /\ images' = <<>>
    /\ log' = <<>>
    /\ outcome' = "none"
    /\ ret' = <<>>
    /\ handles' = {}
    /\ memo' \in {memo} \cup Normalizations(log)
    /\ UNCHANGED appVars

(* a caller invokes one of the three functions with some argument *)
StartPdf == CanCall /\ UNCHANGED appVars /\ \E d \in Docs : CallPdf(d)
StartUrl == CanCall /\ UNCHANGED appVars /\ \E u \in Urls : CallUrl(u)
StartDownload == CanCall /\ UNCHANGED appVars /\ \E u \in Urls : CallDownload(u)

(* ------------------------------- main --------------------------------- *)
(* classify_images_clip: an image in, one of two labels out; it can fail  *)
(* like any call                                                          *)
Labels == {"medical", "non-medical"}
ClassifyOutcomes == Labels \cup {"raise"}

(* Image.open(io.BytesIO(img_bytes)).convert("RGB") *)
Bitmap(buf) == [mode |-> "RGB", px |-> buf.px]

(* print(f"Image {i+1}: {label}") and print(f"Error processing image {i+1}: {e}") *)
LabelLine(i, label) == [n |-> i + 1, kind |-> "label", label |-> label]
ErrorLine(i) == [n |-> i + 1, kind |-> "error", label |-> "none"]

(* the PDFs main is run on: those listing at most MaxMainImgs images *)
MainDocs == {d \in Docs : Len(Listed(d)) <= MaxMainImgs}

BothGivenUrl == <<"https:", "/", "/", "example.com", "/", "page", ".html">>

(* args.pdf and args.url: neither, one of them, or both *)
MainArgs ==
    {NoArgs}
    \cup {[pdf |-> d, url |-> <<>>] : d \in MainDocs}
    \cup {[pdf |-> NoDoc, url |-> u] : u \in Urls}
    \cup {[pdf |-> d, url |-> BothGivenUrl] : d \in MainDocs}

(* the frame of the finished extraction call is gone *)
DropFrame ==
    /\ pc' = "idle"
    /\ op' = "none"
    /\ doc' = NoDoc
    /\ rawUrl' = <<>>
    /\ url' = <<>>
    /\ pg' = 1
    /\ ix' = 1
    /\ tags' = <<>>
    /\ idx' = 1
    /\ images' = <<>>
    /\ log' = <<>>
    /\ outcome' = "none"
    /\ ret' = <<>>
    /\ handles' = {}
    /\ UNCHANGED memo

MainStart ==
    /\ mpc = "off"
    /\ CanCall
    /\ \E a \in MainArgs :
        /\ prog' = "main"
        /\ args' = a
        /\ IF a.pdf # NoDoc
           THEN CallPdf(a.pdf) /\ mpc' = "extract" /\ mout' = "none"
           ELSE IF a.url # <<>>
           THEN CallUrl(a.url) /\ mpc' = "extract" /\ mout' = "none"
           ELSE mpc' = "exit" /\ mout' = "returned" /\ UNCHANGED exVars
    /\ UNCHANGED <<extracted, mimages, mi, lines, calls, ecorrect, etotal, etimes, eout>>

MainOnExtractError_Propagate(a) == "raised"

(* extract_images_from_pdf is called bare, extract_images_from_url inside *)
(* try / except Exception: print; return                                  *)
MainOnExtractError(a) == IF a.pdf # NoDoc THEN "raised" ELSE "returned"

MainAfterExtract ==
    /\ prog = "main"
    /\ mpc = "extract"
    /\ pc = "done"
    /\ extracted' = [outcome |-> outcome, ret |-> ret]
    /\ DropFrame
    /\ IF outcome = "raised"
       THEN /\ mimages' = <<>>
            /\ mpc' = "exit"
            /\ mout' = MainOnExtractError(args)
       ELSE /\ mimages' = ret[1]
            /\ IF ret[1] = <<>>
               THEN mpc' = "exit" /\ mout' = "returned"
               ELSE mpc' = "loop" /\ mout' = "none"
    /\ mi' = 0
    /\ UNCHANGED <<prog, args, lines, calls, ecorrect, etotal, etimes, eout>>

ErrorStep_Break(i, n) == n

(* except Exception: print the error line; the for loop goes on *)
ErrorStep(i, n) == i + 1

MainClassify ==
    /\ prog = "main"
    /\ mpc = "loop"
    /\ mi < Len(mimages)
    /\ LET buf == mimages[mi + 1]
       IN  IF ~Decodable(buf)
           THEN /\ lines' = Append(lines, ErrorLine(mi))
                /\ mi' = ErrorStep(mi, Len(mimages))
                /\ UNCHANGED calls
           ELSE \E r \in ClassifyOutcomes :
                /\ calls' = Append(calls, [i |-> mi, image |-> Bitmap(buf), result |-> r])
                /\ IF r \in Labels
                   THEN lines' = Append(lines, LabelLine(mi, r)) /\ mi' = mi + 1
                   ELSE /\ lines' = Append(lines, ErrorLine(mi))
                        /\ mi' = ErrorStep(mi, Len(mimages))
    /\ UNCHANGED <<prog, mpc, args, extracted, mimages, mout,
                   ecorrect, etotal, etimes, eout>>
    /\ UNCHANGED exVars

MainLoopEnd ==
    /\ prog = "main"
    /\ mpc = "loop"
    /\ mi >= Len(mimages)
    /\ mpc' = "exit"
    /\ mout' = "returned"
    /\ UNCHANGED <<prog, args, extracted, mimages, mi, lines, calls,
                   ecorrect, etotal, etimes, eout>>
    /\ UNCHANGED exVars

(* ----------------------- evaluate_performance -------------------------- *)
(* test_cases of evaluate_single_image_classification *)
TestCases == << [path |-> "test_images/test image 1.jpg", expected |-> "medical"] >>

(* what is found at a test path: nothing, a file PIL cannot open, an image *)
FileStates == {"missing", "unreadable", "image"}

(* measured classification times, in tenths of a second *)
Durations == {2, 15}

RECURSIVE SumSeq(_)
SumSeq(q) == IF q = <<>> THEN 0 ELSE Head(q) + SumSeq(Tail(q))

(* accuracy = (correct / total * 100) if total > 0 else 0 *)
Accuracy(correct, total) == IF total > 0 THEN (correct * 100) \div total ELSE 0

(* avg_time = statistics.mean(times) if times else 0 *)
AvgTime(times) == IF times # <<>> THEN SumSeq(times) \div Len(times) ELSE 0

(* 1/avg_time and 1/single_time inside the printed f-strings *)
DivisionRaises(divisor) == divisor = 0

(* generate_performance_report starts evaluate_single_image_classification *)
EvalStart ==
    /\ mpc = "off"
    /\ CanCall
    /\ prog' = "eval"
    /\ mpc' = "ev_case"
    /\ mi' = 0
    /\ ecorrect' = 0
    /\ etotal' = 0
    /\ etimes' = <<>>
    /\ UNCHANGED <<args, extracted, mimages, lines, calls, mout, eout>>
    /\ UNCHANGED exVars

(* one turn of the loop over test_cases *)
EvalCase ==
    /\ prog = "eval"
    /\ mpc = "ev_case"
    /\ mi < Len(TestCases)
    /\ \E f \in FileStates :
        IF f = "image"
        THEN \E r \in ClassifyOutcomes, t \in Durations :
            /\ calls' = Append(calls, [i |-> mi, image |-> Bitmap(PngRgba), result |-> r])
            /\ IF r \in Labels
               THEN /\ etimes' = Append(etimes, t)
                    /\ ecorrect' = ecorrect + (IF r = TestCases[mi + 1].expected THEN 1 ELSE 0)
                    /\ etotal' = etotal + 1
               ELSE UNCHANGED <<etimes, ecorrect, etotal>>
        ELSE UNCHANGED <<calls, etimes, ecorrect, etotal>>
    /\ mi' = mi + 1
    /\ UNCHANGED <<prog, mpc, args, extracted, mimages, lines, mout, eout>>
    /\ UNCHANGED exVars

(* the results block: accuracy, avg_time, the three prints, the return; an *)
(* exception leaves generate_performance_report as well                    *)
EvalSummary ==
    /\ prog = "eval"
    /\ mpc = "ev_case"
    /\ mi = Len(TestCases)
    /\ IF DivisionRaises(AvgTime(etimes))
       THEN eout' = Raised /\ mpc' = "exit" /\ mout' = "raised"
       ELSE /\ eout' = Returned(<<Accuracy(ecorrect, etotal), AvgTime(etimes)>>)
            /\ mpc' = "ev_rest"
            /\ mout' = "none"
    /\ UNCHANGED <<prog, args, extracted, mimages, mi, lines, calls,
                   ecorrect, etotal, etimes>>
    /\ UNCHANGED exVars

(* the other three evaluations, by the classification call that          *)
(* evaluate_memory_efficiency makes outside any try block                 *)
ReportRest ==
    /\ prog = "eval"
    /\ mpc = "ev_rest"
    /\ \E r \in ClassifyOutcomes :
        /\ calls' = Append(calls, [i |-> Len(TestCases), image |-> Bitmap(PngRgba), result |-> r])
        /\ IF r \in Labels
           THEN mpc' = "ev_summary" /\ mout' = "none"
           ELSE mpc' = "exit" /\ mout' = "raised"
    /\ UNCHANGED <<prog, args, extracted, mimages, mi, lines,
                   ecorrect, etotal, etimes, eout>>
    /\ UNCHANGED exVars

(* the summary of generate_performance_report *)
ReportSummary ==
    /\ prog = "eval"
    /\ mpc = "ev_summary"
    /\ mpc' = "exit"
    /\ mout' = IF DivisionRaises(eout.ret[1][2]) THEN "raised" ELSE "returned"
    /\ UNCHANGED <<prog, args, extracted, mimages, mi, lines, calls,
                   ecorrect, etotal, etimes, eout>>
    /\ UNCHANGED exVars

(* --------------------------- specification ---------------------------- *)
Next ==
    \/ StartPdf
    \/ PdfNextPage
    \/ PdfExtract
    \/ PdfReturn
    \/ StartUrl
    \/ DirectFetch
    \/ LikeFetch
    \/ HtmlFetch
    \/ ImgSkip
    \/ ImgFetch
    \/ UrlReturn
    \/ StartDownload
    \/ DownloadFetch
    \/ Leave

Spec == Init /\ [][Next]_vars

(* the programs around the extraction functions: main and the evaluation *)
NextApp ==
    \/ MainStart
    \/ PdfNextPage
    \/ PdfExtract
    \/ PdfReturn
    \/ DirectFetch
    \/ LikeFetch
    \/ HtmlFetch
    \/ ImgSkip
    \/ ImgFetch
    \/ UrlReturn
    \/ MainAfterExtract
    \/ MainClassify
    \/ MainLoopEnd
    \/ EvalStart
    \/ EvalCase
    \/ EvalSummary
    \/ ReportRest
    \/ ReportSummary

SpecApp == Init /\ [][NextApp]_vars

(* ------------------------------ claims -------------------------------- *)
(* the raw bytes of the listed images, one per listing, in that order *)
RawList(d) == [i \in 1..Len(Listed(d)) |-> XrefImage[Listed(d)[i]]]

AllExtractable(d) == \A i \in 1..Len(Listed(d)) : Listed(d)[i] \notin d.broken

PdfDone == pc = "done" /\ op = "pdf"
UrlDone == pc = "done" /\ op = "url"

(* C1, as stated: for every PDF that opens and lists N images the call    *)
(* returns the N raw buffers in page order then in-page order.            *)
C1_Original ==
    (PdfDone /\ doc.status = "ok")
        => (outcome = "returned" /\ ret = <<RawList(doc)>>)

(* C1, amended: for every PDF that opens and each of whose listed images  *)
(* extracts without error, the call returns exactly the raw buffers of    *)
(* the listed images, by page and within a page in listing order, none    *)
(* re-encoded, dropped or reordered.                                      *)
C1_PdfReturnsAllInOrder ==
    (PdfDone /\ doc.status = "ok" /\ AllExtractable(doc))
        => (outcome = "returned" /\ ret = <<RawList(doc)>>)

C1_Witness ==
    /\ PdfDone
    /\ outcome = "returned"
    /\ Len(doc.pages) = 2
    /\ doc.pages[1] = <<7, 5>>
    /\ doc.pages[2] = <<5>>
    /\ ret = << <<PngCut, PngRgba, PngRgba>> >>

(* C2: a PDF that is missing or unparsable, or any image of which fails   *)
(* to extract, makes the call raise; no list, partial or other, is        *)
(* returned.                                                              *)
C2_PdfFailureRaises ==
    (PdfDone /\ (doc.status # "ok" \/ ~AllExtractable(doc)))
        => (outcome = "raised" /\ ret = <<>>)

C2_Witness ==
    /\ PdfDone
    /\ doc.status = "ok"
    /\ outcome = "raised"
    /\ Len(images) >= 1

FirstFailed == Len(log) >= 1 /\ log[1].resp.status \in FailStatuses
FirstUndecodable ==
    Len(log) >= 1 /\ log[1].resp.status = "ok" /\ ~Decodable(log[1].resp.content)

(* C3: for a direct image link, a failed fetch or undecodable bytes make  *)
(* the call return the empty list, raising nothing.                       *)
C3_DirectFailureYieldsEmpty ==
    (UrlDone /\ IsDirect(url) /\ (FirstFailed \/ FirstUndecodable))
        => (outcome = "returned" /\ ret = << <<>> >>)

(* C4: for an image-like URL that is no direct link, any failure of the   *)
(* single-image attempt makes the call go on with the webpage path: it    *)
(* neither raises nor returns before the page is requested.               *)
C4_LikeFailureFallsThrough ==
    (op = "url" /\ ~IsDirect(url) /\ IsImageLike(url)
        /\ (FirstFailed \/ FirstUndecodable))
        => /\ outcome # "raised"
           /\ \/ pc = "html"
              \/ Len(log) >= 2 /\ log[2].via = "html"

(* the URL without surrounding whitespace and without its query string *)
QueryAtoms == {"?v=1"}
UrlPath(u) == SelectSeq(Strip(u), LAMBDA a : a \notin QueryAtoms)
PathEndsInImageExt(u) == \E e \in ImageExts : EndsWith(Lower(UrlPath(u)), <<e>>)

(* C5: for a URL whose path ends in a recognized image extension, with or *)
(* without query string or surrounding whitespace, a returned list never  *)
(* has more than one element.                                             *)
C5_ImagePathAtMostOne ==
    (UrlDone /\ PathEndsInImageExt(rawUrl) /\ outcome = "returned")
        => Len(ret[1]) <= 1

NamesImage(u) == \E e \in ImageExts : Contains(Lower(u), <<e>>)

(* C6: for a URL with an image extension in it, with or without a query   *)
(* string, whose fetch and decode succeed, the call returns exactly the   *)
(* one RGB JPEG re-encoding and never requests the URL as HTML.           *)
C6_ImageUrlYieldsOne ==
    (UrlDone /\ NamesImage(url) /\ Len(log) >= 1
        /\ log[1].resp.status = "ok" /\ Decodable(log[1].resp.content))
        => /\ outcome = "returned"
           /\ ret = << <<EncodeJpegRgb(log[1].resp.content)>> >>
           /\ \A i \in 1..Len(log) : log[i].via # "html"

HtmlFailed ==
    \E i \in 1..Len(log) : log[i].via = "html" /\ log[i].resp.status \in FailStatuses

(* C7: on the webpage path, a failed fetch of the page makes the call     *)
(* return the empty list and raise nothing.                               *)
C7_HtmlFetchFailureYieldsEmpty ==
    (UrlDone /\ HtmlFailed) => (outcome = "returned" /\ ret = << <<>> >>)

C7_Witness ==
    /\ UrlDone
    /\ Len(log) = 2
    /\ log[1].via = "dc"
    /\ log[2].via = "html"
    /\ log[2].resp.status = "timeout"
    /\ outcome = "returned"

PageFetched ==
    \E i \in 1..Len(log) : log[i].via = "html" /\ log[i].resp.status = "ok"

(* the requests made for the img elements, and those that gave an image *)
ImgLog == SelectSeq(log, LAMBDA r : r.elem > 0)
GoodLog ==
    SelectSeq(ImgLog, LAMBDA r : r.resp.status = "ok" /\ Decodable(r.resp.content))
WithSrc(t) == SelectSeq(t, LAMBDA s : s # NoSrc)

(* C8: on the webpage path the list holds exactly the images whose fetch  *)
(* and decode succeeded, in the document order of their img elements; it  *)
(* is no longer than the number of img elements, and a failed image       *)
(* neither ends the call nor disturbs the others.                         *)
C8_PageImagesInDocumentOrder ==
    (op = "url" /\ PageFetched)
        => /\ images = [i \in 1..Len(GoodLog) |-> EncodeJpegRgb(GoodLog[i].resp.content)]
           /\ \A i, j \in 1..Len(ImgLog) : i < j => ImgLog[i].elem < ImgLog[j].elem
           /\ Len(images) <= Len(tags)
           /\ pc = "done" => /\ outcome = "returned"
                             /\ ret = <<images>>
                             /\ Len(ImgLog) = Len(WithSrc(tags))

C8_Witness ==
    /\ UrlDone
    /\ Len(tags) = 2
    /\ Len(ImgLog) = 2
    /\ ImgLog[1].resp.status = "http_error"
    /\ ImgLog[2].resp = [status |-> "ok", content |-> PngRgba]
    /\ ret = << <<EncodeJpegRgb(PngRgba)>> >>

(* C9: a protocol-relative src is fetched with the scheme of the page and *)
(* a root-relative src from the scheme and host of the page.              *)
C9_RelativeSrcUsesPageOrigin ==
    \A i \in 1..Len(log) :
        log[i].elem > 0 =>
            LET src == tags[log[i].elem]
            IN  /\ StartsWith(src, <<"/", "/">>)
                    => log[i].url = <<url[1]>> \o src
                /\ (StartsWith(src, <<"/">>) /\ ~StartsWith(src, <<"/", "/">>))
                    => log[i].url = <<url[1], "/", "/", url[4]>> \o src

(* C10: the normalizing step never raises: fetched bytes that cannot be   *)
(* decoded or converted give None, bytes that can give one RGB JPEG.      *)
C10_NormalizeNeverRaises ==
    \A i \in 1..Len(log) :
        (log[i].via = "dc" /\ log[i].resp.status = "ok")
            => /\ ~log[i].raised
               /\ IF Decodable(log[i].resp.content)
                  THEN /\ log[i].value.type = "img"
                       /\ log[i].value.fmt = "JPEG"
                       /\ log[i].value.mode = "RGB"
                  ELSE log[i].value = None
               /\ (pc = "done" /\ op = "dc")
                    => (outcome = "returned" /\ ret = <<log[i].value>>)

C10_Witness ==
    /\ pc = "done"
    /\ op = "dc"
    /\ log[1].resp = [status |-> "ok", content |-> Garbage]
    /\ outcome = "returned"
    /\ ret = <<None>>

(* C11: every outbound request, the page fetch as well as each image     *)
(* fetch, is a GET with the desktop-browser User-Agent and timeout 10.    *)
C11_EveryRequestIdentified ==
    \A i \in 1..Len(log) :
        /\ log[i].method = "GET"
        /\ log[i].ua
        /\ log[i].timeout = 10

(* the single-image attempt of the direct and image-like branches *)
SingleAttempts == IF IsDirect(url) \/ IsImageLike(url) THEN 1 ELSE 0

(* C12: within one extract_images_from_url call no candidate is requested *)
(* twice, a failed fetch counts as no image and lets the call go on      *)
(* instead of ending it with an error, and the requests number at most   *)
(* one per candidate image plus one for the page.                        *)
C12_NoRetryAndContinue ==
    op = "url" =>
        /\ \A i, j \in 1..Len(log) :
            (i < j /\ log[i].elem > 0) => log[i].elem # log[j].elem
        /\ Len(log) <= SingleAttempts + Len(WithSrc(tags)) + 1
        /\ \A i \in 1..Len(log) :
            log[i].resp.status \in FailStatuses => outcome # "raised"

Normalized(r) == r.via = "dc" /\ r.resp.status = "ok"

C14_HandlesReleased == pc = "done" => handles = {}

(* the classification calls made for the image at position k *)
CallsFor(k) == SelectSeq(calls, LAMBDA c : c.i = k - 1)

(* C15: main prints exactly one result line per extracted image, in      *)
(* extraction order and numbered by position: the label when decoding    *)
(* and classification succeed, an error line otherwise; a failure never  *)
(* stops the later images nor shifts their numbers.                      *)
C15_OneLinePerImage ==
    (prog = "main" /\ mimages # <<>>)
        => /\ Len(lines) = mi
           /\ \A k \in 1..Len(lines) :
                /\ lines[k].n = k
                /\ IF Decodable(mimages[k])
                   THEN /\ Len(CallsFor(k)) = 1
                        /\ CallsFor(k)[1].image = Bitmap(mimages[k])
                        /\ lines[k] =
                            IF CallsFor(k)[1].result \in Labels
                            THEN [n |-> k, kind |-> "label",
                                  label |-> CallsFor(k)[1].result]
                            ELSE [n |-> k, kind |-> "error", label |-> "none"]
                   ELSE /\ Len(CallsFor(k)) = 0
                        /\ lines[k] = [n |-> k, kind |-> "error", label |-> "none"]
           /\ mpc = "exit" => (Len(lines) = Len(mimages) /\ mout = "returned")

C15_Witness ==
    /\ prog = "main"
    /\ mpc = "exit"
    /\ mimages = <<PngCut, PngRgba>>
    /\ lines = << [n |-> 1, kind |-> "error", label |-> "none"],
                  [n |-> 2, kind |-> "label", label |-> "medical"] >>

UrlOnly == args.pdf = NoDoc /\ args.url # <<>>
NothingExtracted == extracted.outcome = "raised" \/ extracted.ret = << <<>> >>

(* C16: main calls the classifier only after an extraction that returned *)
(* a non-empty list; with a URL input an extraction that raises or       *)
(* returns the empty list makes main return normally with no             *)
(* classification, with a PDF input an extraction error leaves main.     *)
C16_ClassifyOnlyOnNonEmpty ==
    prog = "main"
        => /\ calls # <<>>
                => (extracted.outcome = "returned" /\ extracted.ret[1] # <<>>)
           /\ (mpc = "exit" /\ UrlOnly /\ NothingExtracted)
                => (mout = "returned" /\ calls = <<>>)
           /\ (mpc = "exit" /\ args.pdf # NoDoc /\ extracted.outcome = "raised")
                => mout = "raised"

C16_Witness ==
    /\ prog = "main"
    /\ mpc = "exit"
    /\ UrlOnly
    /\ extracted.outcome = "raised"
    /\ mout = "returned"
    /\ calls = <<>>

(* C17: when no test case is processed, the single-image evaluation      *)
(* returns accuracy 0 and average time 0 without raising, and the        *)
(* performance report then completes without raising.                    *)
C17_EmptyEvaluationCompletes ==
    (prog = "eval" /\ mpc \notin {"off", "ev_case"} /\ etotal = 0)
        => /\ eout = Returned(<<0, 0>>)
           /\ mpc = "exit" => mout = "returned"

====
